---------------------------- MODULE Spec2Model ----------------------------
(***************************************************************************)
(* A model of my_plots.py: the render strategies lines/points/vlines, the  *)
(* dispatch table exe_func, the palette colorcycle, the orchestrator       *)
(* plot_any stepping through its statements against the process-wide       *)
(* pyplot state (rcParams, the registry of open figures with its active    *)
(* figure), and the tick formatter ps_time.                                *)
(*                                                                         *)
(* Strings produced by ps_time are sequences of Unicode code points.       *)
(* Tick values are rationals x_val / TickDen.  Python's None is 0 where a  *)
(* label or a figure number is expected and "None" where a tag is.         *)
(***************************************************************************)
EXTENDS Integers, Sequences, FiniteSets, TLC

VARIABLES
    rcParams,   \* mpl.rcParams: [linewidth, fontsize]; 0 = the library's default
    figs,       \* pyplot's registry of open figures, oldest activation first;
                \* the last one is the active figure (plt.gcf(), plt.gca())
    pc,         \* position of plot_any: idle (in the caller), draw, axes, legend, invert,
                \* format, save, close, returned, raised
    args,       \* arguments of the running plot_any call
    frame,      \* locals of the running call and what it has done so far
    hist,       \* history: calls started, whether all of them released their figure
    x_val,      \* ps_time: numerator of the tick value
    pos,        \* ps_time: tick position
    t_val       \* ps_time: the returned string

plotVars == <<rcParams, figs, pc, args, frame, hist>>
tickVars == <<x_val, pos, t_val>>
vars == <<rcParams, figs, pc, args, frame, hist, x_val, pos, t_val>>

-----------------------------------------------------------------------------
(* Bounds *)

MaxSeries == 11
MaxCalls == 3
MaxInvert == 2
MaxTick == 2600
MaxMicro == 14
MaxPos == 1
TickDen == 2

-----------------------------------------------------------------------------
(* ps_time *)

Abs(n) == IF n < 0 THEN -n ELSE n

RECURSIVE Digits(_)
Digits(n) == IF n < 10 THEN <<48 + n>>
             ELSE Append(Digits(n \div 10), 48 + (n % 10))

\* Nearest integer to num/den (num >= 0, den > 0), an exact half to the even one.
RoundHalfEven(num, den) ==
    LET q == num \div den
        r == num % den
    IN  IF 2 * r > den THEN q + 1
        ELSE IF 2 * r < den THEN q
        ELSE IF q % 2 = 0 THEN q ELSE q + 1

\* '{:1.0f}'.format(num/den): sign of the value, then the rounded magnitude.
Format_1_0f(num, den) ==
    (IF num < 0 THEN <<45>> ELSE <<>>) \o Digits(RoundHalfEven(Abs(num), den))

Million == 1000000
Thousand == 1000

\* The literal suffixes of lines 128, 130, 132 as code points.  Line 128 holds
\* the bytes 20 C3 82 C2 B5 73, which Python reads as " ", U+00C2, U+00B5, "s".
SuffixMicro == <<32, 194, 181, 115>>
SuffixNano == <<32, 110, 115>>
SuffixPico == <<32, 112, 115>>

ps_time(x, p) ==
    IF x = 0 THEN Format_1_0f(x, TickDen)
    ELSE IF x >= Million * TickDen THEN Format_1_0f(x, Million * TickDen) \o SuffixMicro
    ELSE IF x >= Thousand * TickDen THEN Format_1_0f(x, Thousand * TickDen) \o SuffixNano
    ELSE Format_1_0f(x, TickDen) \o SuffixPico

\* Tick values offered to the formatter: a dense range around 0, and values
\* around every quarter of a million.
TickValues ==
    ((-(MaxTick * TickDen)) .. (MaxTick * TickDen))
    \cup { TickDen * (k * (Million \div 4) + d) : k \in 0..MaxMicro, d \in -1..1 }

Positions == 0..MaxPos

\* Before any call of the formatter.
TickIdle == x_val = 0 /\ pos = 0 /\ t_val = <<>>

\* The host library is about to format the tick x_val at position pos.
TickInit == x_val \in TickValues /\ pos \in Positions /\ t_val = <<>>

\* The call t_val = ps_time(x_val, pos).
PsTime ==
    /\ t_val = <<>>
    /\ t_val' = ps_time(x_val, pos)
    /\ UNCHANGED <<x_val, pos, plotVars>>

-----------------------------------------------------------------------------
(* The render strategies and their dispatch *)

None == 0

\* Each strategy returns the artist its draw primitive adds to the axes.
lines(color, label) == [kind |-> "plot", color |-> color, label |-> label]

points(color, label) == [kind |-> "scatter", color |-> color, label |-> label]

\* ax.vlines(x, origin, y, colors=color): the label parameter is not forwarded.
vlines(color, label) == [kind |-> "vlines", color |-> color, label |-> None]

exe_func_keys == {"lines", "points", "vlines"}

exe_func(plotcase, color, label) ==
    CASE plotcase = "lines"  -> lines(color, label)
      [] plotcase = "points" -> points(color, label)
      [] plotcase = "vlines" -> vlines(color, label)

colorcycle == <<"C0", "C1", "C2", "C3", "C4", "C5", "C6", "C7", "C8", "C9">>

\* A cycle that is one entry short.
ColorOfShortCycle(index) == colorcycle[(index % (Len(colorcycle) - 1)) + 1]

\* colorcycle[index % len(colorcycle)], index counted from 0 as enumerate does.
ColorOf(index) == colorcycle[(index % Len(colorcycle)) + 1]

fontsize == 30

\* A style that is set only while the library's default is still in force.
StyleOnce(rc, linewidth) ==
    IF rc.linewidth = 0 THEN [linewidth |-> linewidth, fontsize |-> fontsize] ELSE rc

\* Lines 61-62: the process-wide style after the two assignments.
Style(rc, linewidth) == [linewidth |-> linewidth, fontsize |-> fontsize]

-----------------------------------------------------------------------------
(* pyplot's figure registry *)

Nums(fs) == { fs[i].num : i \in 1..Len(fs) }

\* The number plt.figure() gives a new figure: one more than the largest open one.
NextNum(fs) ==
    IF fs = <<>> THEN 1
    ELSE (CHOOSE m \in Nums(fs) : \A k \in Nums(fs) : k <= m) + 1

\* plt.subplots(): a new figure with one fresh axes pair, made the active figure.
Subplots(fs) == Append(fs, [num |-> NextNum(fs), xinv |-> FALSE, yinv |-> FALSE])

\* plt.gcf().number
Active(fs) == fs[Len(fs)].num

IsNot(f, n) == f.num # n

\* plt.close(fig)
Close(fs, n) == SelectSeq(fs, LAMBDA f : IsNot(f, n))

FigOf(fs, n) == fs[CHOOSE i \in 1..Len(fs) : fs[i].num = n]

\* ax.set(xlim=lims) on the axes of figure n: a descending pair reverses the axis.
SetXlim(fs, n, lims) ==
    [i \in 1..Len(fs) |->
        IF fs[i].num = n /\ lims # "None"
        THEN [fs[i] EXCEPT !.xinv = (lims = "desc")] ELSE fs[i]]

SetYlim(fs, n, lims) ==
    [i \in 1..Len(fs) |->
        IF fs[i].num = n /\ lims # "None"
        THEN [fs[i] EXCEPT !.yinv = (lims = "desc")] ELSE fs[i]]

\* An inversion that sets the reversed direction instead of flipping it.
InvertAxisSet(fs, axis) ==
    IF fs = <<>> THEN fs
    ELSE IF axis = "x" THEN [fs EXCEPT ![Len(fs)].xinv = TRUE]
    ELSE IF axis = "y" THEN [fs EXCEPT ![Len(fs)].yinv = TRUE]
    ELSE fs

\* plt.gca().invert_xaxis() / invert_yaxis(): the axes of the active figure.
InvertAxis(fs, axis) ==
    IF fs = <<>> THEN fs
    ELSE IF axis = "x" THEN [fs EXCEPT ![Len(fs)].xinv = ~ @]
    ELSE IF axis = "y" THEN [fs EXCEPT ![Len(fs)].yinv = ~ @]
    ELSE fs

\* for axis in invert: ...
RECURSIVE InvertLoop(_, _)
InvertLoop(fs, invert) ==
    IF invert = <<>> THEN fs
    ELSE InvertLoop(InvertAxis(fs, Head(invert)), Tail(invert))

-----------------------------------------------------------------------------
(* Arguments of plot_any *)

\* labels: None, or the sequence of labels; the label at position i is i.
NoLabels == [none |-> TRUE, seq |-> <<>>]
Labels(k) == [none |-> FALSE, seq |-> [i \in 1..k |-> i]]

\* Python truthiness of labels: None and an empty sequence are both false.
Truthy(labels) == ~ labels.none /\ Len(labels.seq) > 0

\* The defaults of the signature (lines 22-24); writable says whether savefig
\* can write savename.
Defaults ==
    [vals |-> <<>>, plotcase |-> "lines", labels |-> NoLabels,
     xlims |-> "None", ylims |-> "None", show |-> TRUE, save |-> FALSE,
     writable |-> TRUE, linewidth |-> 5,
     formatfuncx |-> "None", formatfuncy |-> "None", invert |-> <<>>]

\* A series collection of n series: vals[i] says whether the draw primitive
\* accepts series i (x and y of equal length).  bad = 0: every series is accepted.
Series(n, bad) == [i \in 1..n |-> i # bad]

SeqsUpTo(S, n) == UNION { [1..k -> S] : k \in 0..n }

PlotCases == exe_func_keys \cup {"bars"}

\* Calls varying the series, the plot kind and the labels.
SeriesArgs ==
    { [Defaults EXCEPT !.vals = Series(n, bad), !.plotcase = pcase,
                       !.labels = lab, !.show = sh] :
        n \in 0..MaxSeries, bad \in {0, 1, MaxSeries}, pcase \in PlotCases,
        lab \in {NoLabels} \cup { Labels(k) : k \in {0, 1, MaxSeries - 1, MaxSeries, MaxSeries + 1} },
        sh \in BOOLEAN }

\* Calls varying what happens to the figure.
FigureArgs ==
    { [Defaults EXCEPT !.vals = Series(n, 0), !.plotcase = pcase, !.show = sh,
                       !.save = sv, !.writable = w, !.linewidth = lw,
                       !.invert = inv] :
        n \in 0..1, pcase \in {"lines", "bars"}, sh \in BOOLEAN, sv \in BOOLEAN,
        w \in BOOLEAN, lw \in {1, 5}, inv \in {<<>>, <<"x", "y">>} }

\* Calls varying the axes: limits, inversion, tick formatters.
AxesArgs ==
    { [Defaults EXCEPT !.vals = Series(1, 0), !.xlims = xl, !.ylims = yl,
                       !.invert = inv, !.formatfuncx = fx, !.formatfuncy = fy,
                       !.show = sh] :
        xl \in {"None", "asc", "desc"}, yl \in {"None", "desc"},
        inv \in SeqsUpTo({"x", "y", "z"}, MaxInvert),
        fx \in {"None", "ps_time"}, fy \in {"None", "ps_time"}, sh \in BOOLEAN }

Args == SeriesArgs \cup FigureArgs \cup AxesArgs

-----------------------------------------------------------------------------
(* plot_any, statement by statement *)

NoFrame ==
    [fig |-> None, index |-> 0, drawn |-> <<>>, legend |-> <<>>,
     hasLegend |-> FALSE, fmtx |-> "None", fmty |-> "None",
     written |-> None, error |-> "None", at |-> "None", before |-> <<>>]

PlotInit ==
    /\ rcParams = [linewidth |-> 0, fontsize |-> 0]
    /\ figs = <<>>
    /\ pc = "idle"
    /\ args = Defaults
    /\ frame = NoFrame
    /\ hist = [calls |-> 0, released |-> TRUE]

\* An exception handler that releases the figure before the error leaves.
RaiseAndRelease(e) ==
    /\ pc' = "raised"
    /\ frame' = [frame EXCEPT !.error = e, !.at = pc]
    /\ hist' = [hist EXCEPT !.released = FALSE]
    /\ figs' = Close(figs, frame.fig)

\* An exception leaves plot_any: nothing in lines 53-120 catches it.
Raise(e) ==
    /\ pc' = "raised"
    /\ frame' = [frame EXCEPT !.error = e, !.at = pc]
    /\ hist' = [hist EXCEPT !.released = FALSE]
    /\ figs' = figs

\* An iteration that has the draw primitive check the series first.
IterationErrorShapeFirst(a, index) ==
    IF ~ a.vals[index + 1] THEN "ValueError"
    ELSE IF a.plotcase \notin exe_func_keys THEN "KeyError"
    ELSE IF Truthy(a.labels) /\ index >= Len(a.labels.seq) THEN "IndexError"
    ELSE "None"

\* Lines 70-72 and 75-76, the iteration for the series at index: the table
\* lookup exe_func[plotcase], then the argument labels[index], then the call,
\* whose draw primitive rejects a malformed series.
IterationError(a, index) ==
    IF a.plotcase \notin exe_func_keys THEN "KeyError"
    ELSE IF Truthy(a.labels) /\ index >= Len(a.labels.seq) THEN "IndexError"
    ELSE IF ~ a.vals[index + 1] THEN "ValueError"
    ELSE "None"

\* Lines 57-65: the caller enters plot_any; the style is set, the figure made.
Call ==
    /\ pc = "idle"
    /\ hist.calls < MaxCalls
    /\ \E a \in Args :
        /\ args' = a
        /\ rcParams' = Style(rcParams, a.linewidth)
        /\ figs' = Subplots(figs)
        /\ frame' = [NoFrame EXCEPT !.fig = NextNum(figs), !.before = figs]
    /\ hist' = [hist EXCEPT !.calls = @ + 1]
    /\ pc' = "draw"
    /\ UNCHANGED tickVars

\* Lines 68-76, one iteration.
DrawSeries ==
    /\ pc = "draw"
    /\ frame.index < Len(args.vals)
    /\ IF IterationError(args, frame.index) # "None"
         THEN Raise(IterationError(args, frame.index))
       ELSE
         LET label == IF Truthy(args.labels)
                      THEN args.labels.seq[frame.index + 1] ELSE None
             color == ColorOf(frame.index)
         IN  /\ frame' = [frame EXCEPT
                    !.index = @ + 1,
                    !.drawn = Append(@, [func |-> args.plotcase,
                                         series |-> frame.index,
                                         color |-> color,
                                         label |-> label,
                                         linewidth |-> rcParams.linewidth,
                                         artist |-> exe_func(args.plotcase, color, label)])]
             /\ UNCHANGED <<pc, hist, figs>>
    /\ UNCHANGED <<rcParams, args, tickVars>>

\* The loop of lines 68-76 is exhausted.
DrawDone ==
    /\ pc = "draw"
    /\ frame.index >= Len(args.vals)
    /\ pc' = "axes"
    /\ UNCHANGED <<rcParams, figs, args, frame, hist, tickVars>>

\* Lines 79-87: limits on the call's own axes (labels, title, padding and grid
\* change nothing modelled here).
SetAxes ==
    /\ pc = "axes"
    /\ figs' = SetYlim(SetXlim(figs, frame.fig, args.xlims), frame.fig, args.ylims)
    /\ pc' = "legend"
    /\ UNCHANGED <<rcParams, args, frame, hist, tickVars>>

\* The labels of the artists that carry one, in drawing order.
RECURSIVE Handles(_)
Handles(drawn) ==
    IF drawn = <<>> THEN <<>>
    ELSE (IF Head(drawn).artist.label # None
          THEN <<Head(drawn).artist.label>> ELSE <<>>) \o Handles(Tail(drawn))

\* Lines 90-95: the legend, one entry per labelled artist.
SetLegend ==
    /\ pc = "legend"
    /\ frame' = IF Truthy(args.labels)
                THEN [frame EXCEPT !.hasLegend = TRUE, !.legend = Handles(frame.drawn)]
                ELSE frame
    /\ pc' = "invert"
    /\ UNCHANGED <<rcParams, figs, args, hist, tickVars>>

\* Lines 98-102.
Invert ==
    /\ pc = "invert"
    /\ figs' = InvertLoop(figs, args.invert)
    /\ pc' = "format"
    /\ UNCHANGED <<rcParams, args, frame, hist, tickVars>>

\* Lines 105-110.
SetFormatters ==
    /\ pc = "format"
    /\ frame' = [frame EXCEPT !.fmtx = args.formatfuncx, !.fmty = args.formatfuncy]
    /\ pc' = "save"
    /\ UNCHANGED <<rcParams, figs, args, hist, tickVars>>

\* Lines 113-114: plt.savefig writes the active figure, or fails on the path.
Save ==
    /\ pc = "save"
    /\ IF args.save /\ ~ args.writable
         THEN Raise("OSError")
       ELSE /\ frame' = IF args.save THEN [frame EXCEPT !.written = Active(figs)]
                        ELSE frame
            /\ pc' = "close"
            /\ UNCHANGED <<hist, figs>>
    /\ UNCHANGED <<rcParams, args, tickVars>>

\* A release taken when the figure is to be shown.
ReleaseWhenShown(fs, show, fig) == IF show THEN Close(fs, fig) ELSE fs

\* The registry after lines 117-118.
Release(fs, show, fig) == IF ~ show THEN Close(fs, fig) ELSE fs

\* Lines 117-120.
CloseOrShow ==
    /\ pc = "close"
    /\ figs' = Release(figs, args.show, frame.fig)
    /\ hist' = [hist EXCEPT !.released = @ /\ ~ args.show]
    /\ pc' = "returned"
    /\ UNCHANGED <<rcParams, args, frame, tickVars>>

\* Control is back in the caller, by line 120 or by the exception: the
\* locals of the call are gone, the process-wide state stays.
Leave ==
    /\ pc \in {"returned", "raised"}
    /\ pc' = "idle"
    /\ args' = Defaults
    /\ frame' = NoFrame
    /\ UNCHANGED <<rcParams, figs, hist, tickVars>>

PlotNext ==
    \/ Call
    \/ DrawSeries
    \/ DrawDone
    \/ SetAxes
    \/ SetLegend
    \/ Invert
    \/ SetFormatters
    \/ Save
    \/ CloseOrShow
    \/ Leave

Init == PlotInit /\ TickIdle

Next == PlotNext

Spec == Init /\ [][Next]_vars

\* The formatter alone, applied to every offered tick value.
InitTicks == PlotInit /\ TickInit

SpecTicks == InitTicks /\ [][PsTime]_vars

-----------------------------------------------------------------------------
(* Properties of plot_any *)

Terminal == pc \in {"returned", "raised"}

\* The palette as the specification gives it: ten entries, C0 to C9.
Palette == <<"C0", "C1", "C2", "C3", "C4", "C5", "C6", "C7", "C8", "C9">>

PaletteEntry(i) == Palette[(i % 10) + 1]

PrimitiveOf(plotcase) ==
    CASE plotcase = "lines"  -> "plot"
      [] plotcase = "points" -> "scatter"
      [] plotcase = "vlines" -> "vlines"

RECURSIVE Count(_, _)
Count(seq, e) ==
    IF seq = <<>> THEN 0
    ELSE (IF Head(seq) = e THEN 1 ELSE 0) + Count(Tail(seq), e)

Odd(n) == n % 2 = 1

AllAccepted(a) == \A i \in 1..Len(a.vals) : a.vals[i]

\* C1: a call with a valid plot kind that returns has invoked the selected
\* strategy exactly once per series, in input order, and has drawn the series
\* at index i in palette entry i mod 10 of C0..C9, with or without labels.
C1_OneRenderPerSeriesCycledColor ==
    (pc = "returned" /\ args.plotcase \in exe_func_keys) =>
        /\ Len(frame.drawn) = Len(args.vals)
        /\ \A i \in 1..Len(args.vals) :
            /\ frame.drawn[i].func = args.plotcase
            /\ frame.drawn[i].series = i - 1
            /\ frame.drawn[i].color = PaletteEntry(i - 1)
            /\ frame.drawn[i].artist.kind = PrimitiveOf(args.plotcase)
            /\ frame.drawn[i].artist.color = PaletteEntry(i - 1)

\* A labelled call of eleven series has returned: series 0 and series 10 share
\* a color, series 9 has another.
C1_Witness ==
    /\ pc = "returned"
    /\ Truthy(args.labels)
    /\ Len(args.vals) = 11
    /\ Len(frame.drawn) = 11
    /\ frame.drawn[1].color = frame.drawn[11].color
    /\ frame.drawn[10].color # frame.drawn[11].color

\* C2: a call with a non-empty series collection and labels of another length
\* (and nothing else wrong with it) ends in an error, raised at the legend
\* step, after all series have been drawn.
C2_LabelCountMismatchRaisedAtLegend ==
    ( /\ Terminal
      /\ Len(args.vals) > 0
      /\ Truthy(args.labels)
      /\ Len(args.labels.seq) # Len(args.vals)
      /\ args.plotcase \in exe_func_keys
      /\ AllAccepted(args)
      /\ ~ (args.save /\ ~ args.writable) ) =>
        /\ pc = "raised"
        /\ frame.error # "None"
        /\ frame.at = "legend"
        /\ Len(frame.drawn) = Len(args.vals)

\* C3: a call with an unknown plot kind (and a writable save path) ends in
\* the unknown-plot-kind error with no strategy invoked, for every series
\* collection, the empty one too.
C3_UnknownKindAlwaysRaises ==
    (Terminal /\ args.plotcase \notin exe_func_keys
        /\ ~ (args.save /\ ~ args.writable)) =>
        /\ pc = "raised"
        /\ frame.error = "KeyError"
        /\ frame.drawn = <<>>

\* C3 as amended: with an unknown plot kind no strategy is ever invoked; a
\* non-empty series collection ends the call in the table's KeyError, raised
\* at the first series; with an empty one the table is never consulted, no
\* such error is raised, and the call returns unless the save step fails.
C3_UnknownKindRaisesAtFirstSeries ==
    (pc # "idle" /\ args.plotcase \notin exe_func_keys) =>
        /\ frame.drawn = <<>>
        /\ Terminal =>
            IF Len(args.vals) > 0
            THEN /\ pc = "raised"
                 /\ frame.error = "KeyError"
                 /\ frame.at = "draw"
                 /\ frame.index = 0
            ELSE /\ frame.error # "KeyError"
                 /\ frame.at # "draw"
                 /\ (pc = "returned") = ~ (args.save /\ ~ args.writable)

\* An unknown plot kind has failed on a collection whose first series is
\* malformed and whose labels are supplied.
C3_Witness ==
    /\ pc = "raised"
    /\ args.plotcase \notin exe_func_keys
    /\ Len(args.vals) > 1
    /\ ~ args.vals[1]
    /\ Truthy(args.labels)
    /\ frame.error = "KeyError"
    /\ frame.drawn = <<>>

\* C6: a returned call with save=True has written the figure it created, and
\* wrote it while that figure was open (the save step is passed, the release
\* step not yet taken); a returned call with show=False has released its
\* figure; a returned call leaves one more figure open exactly if show=True;
\* and while every call so far used show=False and succeeded, no figure is open
\* after a call.
C6_SaveThenRelease ==
    /\ (pc = "close" /\ args.save) =>
            /\ frame.written = frame.fig
            /\ frame.fig \in Nums(figs)
    /\ (pc = "returned" /\ args.save) => frame.written = frame.fig
    /\ (pc = "returned" /\ ~ args.show) => frame.fig \notin Nums(figs)
    /\ (pc = "returned" /\ args.show) => frame.fig \in Nums(figs)
    /\ pc = "returned" =>
            Len(figs) = Len(frame.before) + (IF args.show THEN 1 ELSE 0)
    /\ (pc = "returned" /\ hist.released) => figs = <<>>

\* A second call with save=True, show=False has returned while the figure of
\* the first call is still open.
C6_Witness ==
    /\ pc = "returned"
    /\ hist.calls = 2
    /\ args.save /\ ~ args.show
    /\ frame.written = frame.fig
    /\ Len(figs) = 1
    /\ frame.fig \notin Nums(figs)

\* C7: once the inversion loop is done, the x axis of the call's own axes is
\* reversed, relative to the direction the limits gave it, exactly if 'x'
\* occurs an odd number of times in invert, and the y axis exactly if 'y'
\* does; other elements change nothing.
C7_InvertParity ==
    (pc \in {"format", "save", "close", "returned", "raised"}
        /\ frame.at # "draw" /\ frame.fig \in Nums(figs)) =>
        LET own == FigOf(figs, frame.fig)
        IN  /\ own.xinv = ((args.xlims = "desc") # Odd(Count(args.invert, "x")))
            /\ own.yinv = ((args.ylims = "desc") # Odd(Count(args.invert, "y")))

\* invert=['x','y'] on default limits has reversed both axes of the new
\* figure while an earlier figure is open.
C7_Witness ==
    /\ pc = "format"
    /\ args.invert = <<"x", "y">>
    /\ args.xlims = "None" /\ args.ylims = "None"
    /\ Len(figs) = 2
    /\ FigOf(figs, frame.fig).xinv
    /\ FigOf(figs, frame.fig).yinv

\* What the iterations 0..n-1 of the drawing loop come to, by the arguments alone.
RECURSIVE ScanSeries(_, _)
ScanSeries(a, i) ==
    IF i >= Len(a.vals) THEN [n |-> i, error |-> "None"]
    ELSE IF IterationError(a, i) # "None" THEN [n |-> i, error |-> IterationError(a, i)]
    ELSE ScanSeries(a, i + 1)

ExpectedError(a) ==
    IF ScanSeries(a, 0).error # "None" THEN ScanSeries(a, 0).error
    ELSE IF a.save /\ ~ a.writable THEN "OSError"
    ELSE "None"

\* C8: whatever the earlier calls left behind (style, open figures), a call's
\* outcome is determined by its arguments: the style in force is the one it
\* set, every series is drawn in that line width and in the palette color of
\* its index, the call ends in the error or the return its arguments decide,
\* the figure written is its own, its own figure is open afterwards exactly if
\* it failed or show is set, and every figure open before the call is as it was.
C8_OutcomeDecidedByArguments ==
    pc # "idle" =>
        /\ rcParams = [linewidth |-> args.linewidth, fontsize |-> 30]
        /\ Close(figs, frame.fig) = frame.before
        /\ \A i \in 1..Len(frame.drawn) :
            /\ frame.drawn[i].linewidth = args.linewidth
            /\ frame.drawn[i].color = PaletteEntry(i - 1)
        /\ frame.written \in {None, frame.fig}
        /\ Terminal =>
            /\ frame.error = ExpectedError(args)
            /\ (pc = "raised") = (ExpectedError(args) # "None")
            /\ Len(frame.drawn) = ScanSeries(args, 0).n
            /\ (frame.written = frame.fig) = (args.save /\ ExpectedError(args) = "None")
            /\ (frame.fig \in Nums(figs)) = (args.show \/ ExpectedError(args) # "None")

\* A second call in line width 5 has returned after a first call in line
\* width 1 that left its figure open with reversed axes.
C8_Witness ==
    /\ pc = "returned"
    /\ hist.calls = 2
    /\ args.linewidth = 5
    /\ Len(frame.drawn) = 1
    /\ Len(frame.before) = 1
    /\ frame.before[1].xinv
    /\ args.invert = <<"x", "y">>
    /\ args.save

\* C9: a call that has raised raised at the drawing loop or at the save step,
\* ran none of the later steps and repeated none (no legend, no formatter,
\* no limit or inversion after a drawing error; no file written; as many
\* series drawn as iterations completed), left its figure open whatever show
\* is, and left the style at the values it set.
C9_ErrorsPropagateFigureLeftOpen ==
    pc = "raised" =>
        /\ frame.error # "None"
        /\ frame.at \in {"draw", "save"}
        /\ frame.fig \in Nums(figs)
        /\ Active(figs) = frame.fig
        /\ rcParams = [linewidth |-> args.linewidth, fontsize |-> 30]
        /\ frame.written = None
        /\ Len(frame.drawn) = frame.index
        /\ frame.at = "draw" =>
            /\ ~ frame.hasLegend
            /\ frame.fmtx = "None" /\ frame.fmty = "None"
            /\ ~ FigOf(figs, frame.fig).xinv /\ ~ FigOf(figs, frame.fig).yinv
            /\ frame.index < Len(args.vals)
        /\ frame.at = "save" => frame.error = "OSError"

\* A call with show=False has failed at the save step on an unwritable path.
C9_Witness ==
    /\ pc = "raised"
    /\ frame.error = "OSError"
    /\ ~ args.show
    /\ args.linewidth = 1
    /\ frame.fig \in Nums(figs)

\* C10: past the legend step of a call with a valid plot kind, if labels were
\* supplied every series drawn carries the label of its position and the
\* legend has one entry per series, in series order; if labels are absent
\* (None or empty) no series carries a label and no legend is rendered.
C10_LabelsCarriedLegendPerSeries ==
    (pc \in {"invert", "format", "save", "close", "returned"}
        /\ args.plotcase \in exe_func_keys) =>
        IF Truthy(args.labels)
        THEN /\ \A i \in 1..Len(frame.drawn) :
                    frame.drawn[i].artist.label = args.labels.seq[i]
             /\ frame.hasLegend
             /\ frame.legend = [i \in 1..Len(args.vals) |-> args.labels.seq[i]]
        ELSE /\ \A i \in 1..Len(frame.drawn) :
                    /\ frame.drawn[i].label = None
                    /\ frame.drawn[i].artist.label = None
             /\ ~ frame.hasLegend

-----------------------------------------------------------------------------
(* Properties of ps_time *)

Called == t_val # <<>>

\* The suffixes as the specification gives them: " µs", " ns", " ps".
MicroSuffix == <<32, 181, 115>>
NanoSuffix == <<32, 110, 115>>
PicoSuffix == <<32, 112, 115>>

\* The decimal numeral of an integer.
Numeral(n) == (IF n < 0 THEN <<45>> ELSE <<>>) \o Digits(Abs(n))

IsInteger(x) == x % TickDen = 0

\* Nearest integer to x / den for x >= 0, an exact half to the even neighbour.
NearestEven(x, den) ==
    CHOOSE k \in (x \div den) .. (x \div den) + 1 :
        \/ 2 * Abs(x - k * den) < den
        \/ (2 * Abs(x - k * den) = den /\ k % 2 = 0)

\* The unit rule, first match first, on the tick value x / TickDen.
UnitOf(x) ==
    IF x = 0 THEN "none"
    ELSE IF x >= 1000000 * TickDen THEN "micro"
    ELSE IF x >= 1000 * TickDen THEN "nano"
    ELSE "pico"

\* C4: for every tick value and every pos, ps_time gives "0" for 0, the value
\* scaled by 1e-6 with the suffix " µs" from 1,000,000 on, the value scaled
\* by 1e-3 with " ns" from 1,000 on, and the unscaled value with " ps"
\* otherwise, negative values and values between 0 and 1000 included; the
\* result does not depend on pos.
C4_UnitByFirstMatchingRule ==
    Called =>
        /\ t_val = ps_time(x_val, 0)
        /\ UnitOf(x_val) = "none" => t_val = <<48>>
        /\ UnitOf(x_val) = "micro" =>
                t_val = Format_1_0f(x_val, 1000000 * TickDen) \o MicroSuffix
        /\ UnitOf(x_val) = "nano" =>
                t_val = Format_1_0f(x_val, 1000 * TickDen) \o NanoSuffix
        /\ UnitOf(x_val) = "pico" =>
                t_val = Format_1_0f(x_val, TickDen) \o PicoSuffix

\* C5: ps_time(500, _) = "500 ps", ps_time(1500, _) = "2 ns" and
\* ps_time(2_500_000, _) = "2 µs"; for every integer tick value from 0 on
\* the number printed is the integer nearest to the scaled value, an exact
\* half going to the even neighbour.
C5_RoundsToNearestHalfToEven ==
    Called =>
        /\ x_val = 500 * TickDen => t_val = <<53, 48, 48>> \o PicoSuffix
        /\ x_val = 1500 * TickDen => t_val = <<50>> \o NanoSuffix
        /\ x_val = 2500000 * TickDen => t_val = <<50>> \o MicroSuffix
        /\ (IsInteger(x_val) /\ UnitOf(x_val) = "micro") =>
                t_val = Numeral(NearestEven(x_val, 1000000 * TickDen)) \o MicroSuffix
        /\ (IsInteger(x_val) /\ UnitOf(x_val) = "nano") =>
                t_val = Numeral(NearestEven(x_val, 1000 * TickDen)) \o NanoSuffix
        /\ (IsInteger(x_val) /\ x_val >= 0 /\ UnitOf(x_val) = "pico") =>
                t_val = Numeral(x_val \div TickDen) \o PicoSuffix

=============================================================================
